---------------------------- MODULE Spec2Model ----------------------------
(***************************************************************************)
(* Verification model of the movie-discovery client.                       *)
(*                                                                         *)
(* Part 1: the usePaginatedMovies hook (src/src/hooks/usePaginatedMovies.ts)*)
(* as a state machine.  The single-threaded event loop runs one            *)
(* synchronous segment at a time, so every action below is one such        *)
(* segment: a call of resetAndLoad/refresh/loadNext up to the `await` of   *)
(* the fetcher, the continuation of loadPage after the fetcher settled,    *)
(* or the unmount cleanup.  React state setters are taken to be committed  *)
(* at the end of the segment that calls them.                              *)
(*                                                                         *)
(* Part 2: the view history navigator (src/src/navigation/AppNavigator.tsx)*)
(* with its debounce timer, its back lock released by a frame callback,    *)
(* and the effects that copy history, tabHistory and activeTab into the    *)
(* refs the hardware back handler reads.                                   *)
(*                                                                         *)
(* Part 3: the TMDB service (src/src/services/tmdb-service.ts): the        *)
(* credential check of a fetcher and the retry loop of requestWithRetry.   *)
(*                                                                         *)
(* Part 4: the helper hook useStableNavigation                             *)
(* (src/src/hooks/useStableNavigation.ts) with its timers.                 *)
(***************************************************************************)
EXTENDS Naturals, Sequences, FiniteSets, TLC

(***************************************************************************)
(* Bounds of the model.                                                    *)
(***************************************************************************)
MaxPages == 3      \* page numbers and total_pages values the source may report
MaxId == 2         \* movie identifiers 1..MaxId
MaxLen == 1        \* longest result list of one response
MaxInflight == 2   \* cap on simultaneously awaited fetcher calls
MaxMergeLen == 2   \* longest list handed to the merge harness
MaxDepth == 3      \* deepest navigation stack (history)
MaxTabHistory == 1 \* longest tabHistory
TickMs == 50       \* the ms by which the clock of the timed navigator advances
MaxTabDepth == 2   \* longest tabHistory of the tab-only navigator
MaxCalls == 5      \* calls of debounceNavigation followed

Revs == {"a", "b"} \* payload of a movie record apart from its id

Null == "null"
None == <<"none">>

VARIABLES
  movies, page, totalPages,              \* useState, lines 22-24
  initialLoading, refreshing, loadingMore, \* useState, lines 25-27
  error,                                 \* useState, line 28
  loadingRef, fetchedPagesRef,           \* useRef, lines 30-31
  mountedRef, abortControllerRef,        \* useRef, lines 32-33
  pendingRequestsRef,                    \* useRef, line 34
  inflight,                              \* loadPage invocations suspended at line 85
  ev,                                    \* the last segment that ran (observer)
  reqLog, unionById,                     \* scenario observer: pages requested so
                                         \* far, and the newest record served per id
  pre,                                   \* call observer: whether movies, and
                                         \* page and totalPages, still are what
                                         \* they were before the call whose
                                         \* request is awaited or was rejected
  mBase, mIncoming, mOnce, mTwice, mStep, \* inputs/outputs of the merge harness
  history, tabHistory, activeTab,        \* AppNavigator useState, lines 90-93
  backLockRef, historyRef,               \* useRef, lines 94-95
  tabHistoryRef, activeTabRef,           \* useRef, lines 96-97
  navigationTimeoutRef,                  \* useRef, line 98 (0: null)
  timers,                                \* setTimeout callbacks not yet run
  frames,                                \* requestAnimationFrame callbacks not yet run
  navMounted,                            \* whether AppNavigator is mounted: its effect
                                         \* cleanups (lines 234-240) have not run
  nev,                                   \* the last navigator segment that ran (observer)
  lastCall,                              \* observer: the action of the latest scheduleNav
                                         \* call, and whether it replaced another
  run,                                   \* observer: the hardware back requests since
                                         \* the latest call of a debounced entry point
  ages,                                  \* clock observer: for each pending timer, the
                                         \* ms since setTimeout was called (up to Delay)
  quiet,                                 \* clock observer: the ms since history last
                                         \* changed (up to Delay)
  apiKey,                                \* whether TMDB_API_KEY is set (env.ts, line 18)
  svcPc,                                 \* position of the fetcher call: idle, requesting
                                         \* (line 91), waiting (line 104), done
  fetcher,                               \* the fetcher that was called
  attempt,                               \* requestWithRetry's attempt, line 87
  signalAborted,                         \* signal.aborted of the caller's AbortSignal
  requests, httpRequests,                \* observer: calls of request() and HTTP
                                         \* requests they issued
  waits,                                 \* observer: the arguments of wait, in order
  lastFailure,                           \* observer: the error of the latest failed attempt
  svcResult,                             \* how the promise of the fetcher settled
  stableTimeoutRef,                      \* useStableNavigation: navigationTimeoutRef,
                                         \* line 8 (0: null)
  navigationInProgressRef,               \* useRef, line 9
  stableTimers,                          \* its setTimeout callbacks not yet run
  calls,                                 \* observer: calls of debounceNavigation so far
  ran,                                   \* observer: how often each callback has run
  windowRuns,                            \* observer: queued callbacks that ran since
                                         \* navigationInProgressRef was last set
  sev                                    \* the last segment of the helper hook that ran

hookVars == <<movies, page, totalPages, initialLoading, refreshing, loadingMore,
              error, loadingRef, fetchedPagesRef, mountedRef, abortControllerRef,
              pendingRequestsRef, inflight, ev>>
obsVars == <<reqLog, unionById, pre>>
mergeVars == <<mBase, mIncoming, mOnce, mTwice, mStep>>
navVars == <<history, tabHistory, activeTab, backLockRef, historyRef,
             tabHistoryRef, activeTabRef, navigationTimeoutRef, timers, frames,
             navMounted, nev>>
navObs == <<lastCall, run, ages, quiet>>
svcVars == <<apiKey, svcPc, fetcher, attempt, signalAborted, requests,
             httpRequests, waits, lastFailure, svcResult>>
stableVars == <<stableTimeoutRef, navigationInProgressRef, stableTimers, calls,
                ran, windowRuns, sev>>
vars == <<hookVars, obsVars, mergeVars, navVars, navObs, svcVars, stableVars>>

\* the variables outside the hook, outside the merge harness, outside the
\* navigator, outside the service and outside the helper hook
hookFrame == <<mergeVars, navVars, navObs, svcVars, stableVars>>
mergeFrame == <<hookVars, obsVars, navVars, navObs, svcVars, stableVars>>
navFrame == <<hookVars, obsVars, mergeVars, svcVars, stableVars>>
svcFrame == <<hookVars, obsVars, mergeVars, navVars, navObs, stableVars>>
stableFrame == <<hookVars, obsVars, mergeVars, navVars, navObs, svcVars>>

(***************************************************************************)
(* Data: Movie records, result lists, fetcher outcomes.                    *)
(***************************************************************************)
Movie == [id : 1..MaxId, rev : Revs]

Ids(list) == {list[i].id : i \in 1..Len(list)}

NoDupIds(list) == \A i, j \in 1..Len(list) : list[i].id = list[j].id => i = j

\* every list of movies up to length n, repeated ids included
ListsUpTo(n) == UNION {[1..k -> Movie] : k \in 0..n}

MovieLists == ListsUpTo(MaxMergeLen)

\* the result lists a source serves: the entities of one page are distinct
PageResults == {l \in ListsUpTo(MaxLen) : NoDupIds(l)}

\* what a fetcher may resolve with (lines 7-11); the reported page and
\* total_pages are whatever the source says
Responses == [page : 1..MaxPages, results : PageResults, total_pages : 1..MaxPages]

\* the response standing for all responses to a request whose result is
\* discarded unread (line 91)
UnreadResponse == [page |-> 1, results |-> <<>>, total_pages |-> 1]

\* the message of the Error a fetcher of the service rejects with when the API
\* key is missing (src/src/config/env.ts, line 19)
ConfigurationError == "TMDB_API_KEY is missing. Add it to your .env file and rebuild."

\* what a fetcher may reject with: an Error carrying a message, or another value
Thrown == {[isError |-> TRUE,  message |-> "Network Error"],
           [isError |-> TRUE,  message |-> ConfigurationError],
           [isError |-> TRUE,  message |-> "Request cancelled"],
           [isError |-> TRUE,  message |-> "Request aborted"],
           [isError |-> FALSE, message |-> "n/a"]}

\* caughtError.message.includes('aborted'), line 116
IncludesAborted(message) == message \in {"Request aborted"}

DefaultMessage == "Unable to fetch movies right now. Please try again."

(***************************************************************************)
(* mergeUniqueById, lines 13-19: a Map keyed by id keeps the position of   *)
(* the first insertion of a key and the value of the last.                 *)
(***************************************************************************)
MapSet(map, movie) ==
  IF \E i \in 1..Len(map) : map[i].id = movie.id
    THEN [i \in 1..Len(map) |-> IF map[i].id = movie.id THEN movie ELSE map[i]]
    ELSE Append(map, movie)

RECURSIVE ForEachSet(_, _)
ForEachSet(map, list) ==
  IF list = <<>> THEN map
  ELSE ForEachSet(MapSet(map, Head(list)), Tail(list))

ConcatOnly(base, incoming) == base \o incoming

MergeBaseWins(base, incoming) == ForEachSet(<<>>, incoming \o base)

mergeUniqueById(base, incoming) == ForEachSet(<<>>, base \o incoming)

(***************************************************************************)
(* Initial state of the hook, lines 22-34.                                 *)
(***************************************************************************)
\* the call observer while no fetcher request is awaited or has just failed
NoSnapshot == [items |-> TRUE, paging |-> TRUE, reset |-> FALSE]

NoEvent == [op |-> "mount", issued |-> FALSE, page |-> 0, mode |-> "none",
            aborted |-> FALSE, payload |-> None, outcome |-> "none"]

HookInit ==
  /\ movies = <<>>
  /\ page = 0
  /\ totalPages = 1
  /\ initialLoading = FALSE
  /\ refreshing = FALSE
  /\ loadingMore = FALSE
  /\ error = Null
  /\ loadingRef = FALSE
  /\ fetchedPagesRef = {}
  /\ mountedRef = TRUE
  /\ abortControllerRef = 0
  /\ pendingRequestsRef = {}
  /\ inflight = {}
  /\ ev = NoEvent

ObsInit ==
  /\ reqLog = <<>>
  /\ unionById = [i \in 1..MaxId |-> "-"]
  /\ pre = NoSnapshot

(***************************************************************************)
(* loadPage, lines 62-142.                                                 *)
(***************************************************************************)
\* the event record of a call of resetAndLoad/refresh/loadNext: whether it
\* issued a fetcher request, the page it handed to loadPage (0: none), and
\* the state of the promise it returned: pending while the fetcher is awaited,
\* fulfilled when the call returned early
CallEvent(op, issued, target, mode) ==
  [op |-> op, issued |-> issued, page |-> target, mode |-> mode,
   aborted |-> FALSE, payload |-> None,
   outcome |-> IF issued THEN "pending" ELSE "fulfilled"]

\* a controller identity not shared with any suspended invocation (line 78)
NewController ==
  CHOOSE c \in 1..MaxInflight :
    /\ \A r \in inflight : r.id # c
    /\ \A d \in 1..MaxInflight : (\A r \in inflight : r.id # d) => c <= d

DroppedIgnoringLoading(nextPage, fetched) == nextPage \in fetched

DroppedIgnoringFetched(nextPage, fetched) == loadingRef

\* the early return of line 64; `fetched` is fetchedPagesRef.current as the
\* caller left it
LoadPageDropped(nextPage, fetched) == loadingRef \/ nextPage \in fetched

LoadPageKeepingError(nextPage, mode, fetched) ==
  IF LoadPageDropped(nextPage, fetched)
    THEN UNCHANGED <<loadingRef, initialLoading, refreshing, loadingMore,
                     abortControllerRef, pendingRequestsRef, error, inflight>>
    ELSE /\ Cardinality(inflight) < MaxInflight
         /\ loadingRef' = TRUE
         /\ initialLoading' = IF mode = "initial" THEN TRUE ELSE initialLoading
         /\ refreshing' = IF mode = "refresh" THEN TRUE ELSE refreshing
         /\ loadingMore' = IF mode = "append" THEN TRUE ELSE loadingMore
         /\ abortControllerRef' = NewController
         /\ pendingRequestsRef' = pendingRequestsRef \cup {NewController}
         /\ inflight' = inflight \cup
              {[id |-> NewController, page |-> nextPage, mode |-> mode,
                aborted |-> FALSE]}
         /\ UNCHANGED error

\* lines 64-85: the synchronous part of loadPage, up to the await
LoadPage(nextPage, mode, fetched) ==
  IF LoadPageDropped(nextPage, fetched)
    THEN UNCHANGED <<loadingRef, initialLoading, refreshing, loadingMore,
                     abortControllerRef, pendingRequestsRef, error, inflight>>
    ELSE /\ Cardinality(inflight) < MaxInflight
         /\ loadingRef' = TRUE
         /\ initialLoading' = IF mode = "initial" THEN TRUE ELSE initialLoading
         /\ refreshing' = IF mode = "refresh" THEN TRUE ELSE refreshing
         /\ loadingMore' = IF mode = "append" THEN TRUE ELSE loadingMore
         /\ abortControllerRef' = NewController
         /\ pendingRequestsRef' = pendingRequestsRef \cup {NewController}
         /\ error' = Null
         /\ inflight' = inflight \cup
              {[id |-> NewController, page |-> nextPage, mode |-> mode,
                aborted |-> FALSE]}

AlwaysMerge(mode, current, results) == mergeUniqueById(current, results)

\* the updater of lines 98-102
NextMovies(mode, current, results) ==
  IF mode = "append" THEN mergeUniqueById(current, results)
  ELSE mergeUniqueById(<<>>, results)

FinallyKeepingFlags(r) ==
  UNCHANGED <<loadingRef, initialLoading, refreshing, loadingMore>>

FinallyIgnoringMounted(r) ==
  IF abortControllerRef = r.id
    THEN /\ loadingRef' = FALSE
         /\ initialLoading' = FALSE
         /\ refreshing' = FALSE
         /\ loadingMore' = FALSE
    ELSE UNCHANGED <<loadingRef, initialLoading, refreshing, loadingMore>>

\* the finally block, lines 127-139
Finally(r) ==
  IF ~mountedRef
    THEN UNCHANGED <<loadingRef, initialLoading, refreshing, loadingMore>>
    ELSE IF abortControllerRef = r.id
      THEN /\ loadingRef' = FALSE
           /\ initialLoading' = FALSE
           /\ refreshing' = FALSE
           /\ loadingMore' = FALSE
      ELSE UNCHANGED <<loadingRef, initialLoading, refreshing, loadingMore>>

\* lines 85-102 and 127-139: the fetcher resolved with resp
FetchResolve(r, resp) ==
  /\ r \in inflight
  /\ inflight' = inflight \ {r}
  /\ pendingRequestsRef' = pendingRequestsRef \ {r.id}
  /\ IF ~mountedRef \/ r.aborted
       THEN UNCHANGED <<page, totalPages, fetchedPagesRef, movies>>
       ELSE /\ page' = resp.page
            /\ totalPages' = resp.total_pages
            /\ fetchedPagesRef' = fetchedPagesRef \cup {resp.page}
            /\ movies' = NextMovies(r.mode, movies, resp.results)
  /\ Finally(r)
  /\ ev' = [op |-> "resolve", issued |-> FALSE, page |-> r.page, mode |-> r.mode,
            aborted |-> r.aborted, payload |-> resp.results,
            outcome |-> "fulfilled"]
  /\ UNCHANGED <<error, mountedRef, abortControllerRef>>
  /\ UNCHANGED hookFrame

CatchesErrorsOnly(thrown) == thrown.isError

\* line 103: the catch clause binds whatever value was thrown, and neither it
\* nor the finally clause throws, so the promise of loadPage is fulfilled
Catches(thrown) == TRUE

CancelledBySignalOnly(r, thrown) == r.aborted

\* lines 113-117: the rejection is taken for a cancellation
Cancelled(r, thrown) ==
  r.aborted \/ (thrown.isError /\ IncludesAborted(thrown.message))

AlwaysDefaultMessage(thrown) == DefaultMessage

\* lines 122-125
ErrorMessage(thrown) ==
  IF thrown.isError THEN thrown.message ELSE DefaultMessage

\* lines 85 and 103-139: the fetcher rejected with thrown
FetchReject(r, thrown) ==
  /\ r \in inflight
  /\ inflight' = inflight \ {r}
  /\ pendingRequestsRef' = pendingRequestsRef \ {r.id}
  /\ IF ~mountedRef \/ Cancelled(r, thrown)
       THEN UNCHANGED error
       ELSE error' = ErrorMessage(thrown)
  /\ Finally(r)
  /\ ev' = [op |-> "reject", issued |-> FALSE, page |-> r.page, mode |-> r.mode,
            aborted |-> r.aborted, payload |-> thrown,
            outcome |-> IF Catches(thrown) THEN "fulfilled" ELSE "rejected"]
  /\ UNCHANGED <<page, totalPages, fetchedPagesRef, movies, mountedRef,
                 abortControllerRef>>
  /\ UNCHANGED hookFrame

(***************************************************************************)
(* The operations handed to the view, lines 144-162.  The view calls them  *)
(* while it is mounted.                                                    *)
(***************************************************************************)
ResetAndLoadKeepingPage ==
  /\ mountedRef
  /\ fetchedPagesRef' = {}
  /\ totalPages' = 1
  /\ LoadPage(1, "initial", {})
  /\ ev' = CallEvent("resetAndLoad", inflight' # inflight, 1, "initial")
  /\ UNCHANGED <<movies, page, mountedRef>>
  /\ UNCHANGED hookFrame

ResetAndLoad ==
  /\ mountedRef
  /\ fetchedPagesRef' = {}
  /\ page' = 0
  /\ totalPages' = 1
  /\ LoadPage(1, "initial", {})
  /\ ev' = CallEvent("resetAndLoad", inflight' # inflight, 1, "initial")
  /\ UNCHANGED <<movies, mountedRef>>
  /\ UNCHANGED hookFrame

Refresh ==
  /\ mountedRef
  /\ fetchedPagesRef' = {}
  /\ LoadPage(1, "refresh", {})
  /\ ev' = CallEvent("refresh", inflight' # inflight, 1, "refresh")
  /\ UNCHANGED <<movies, page, totalPages, mountedRef>>
  /\ UNCHANGED hookFrame

SkippedPastLastPage == page > totalPages \/ loadingRef

\* the early return of line 157
LoadNextSkipped == page >= totalPages \/ loadingRef

LoadNext ==
  /\ mountedRef
  /\ IF LoadNextSkipped
       THEN /\ UNCHANGED <<loadingRef, initialLoading, refreshing, loadingMore,
                           abortControllerRef, pendingRequestsRef, error, inflight>>
            /\ ev' = CallEvent("loadNext", FALSE, 0, "append")
       ELSE /\ LoadPage(page + 1, "append", fetchedPagesRef)
            /\ ev' = CallEvent("loadNext", inflight' # inflight, page + 1, "append")
  /\ UNCHANGED <<movies, page, totalPages, fetchedPagesRef, mountedRef>>
  /\ UNCHANGED hookFrame

(***************************************************************************)
(* The unmount cleanup, lines 41-59.                                       *)
(***************************************************************************)
UnmountWithoutAbort ==
  /\ mountedRef
  /\ mountedRef' = FALSE
  /\ pendingRequestsRef' = {}
  /\ ev' = [op |-> "unmount", issued |-> FALSE, page |-> 0, mode |-> "none",
            aborted |-> FALSE, payload |-> None, outcome |-> "none"]
  /\ UNCHANGED <<movies, page, totalPages, initialLoading, refreshing, loadingMore,
                 error, loadingRef, fetchedPagesRef, abortControllerRef, inflight>>
  /\ UNCHANGED hookFrame

Unmount ==
  /\ mountedRef
  /\ mountedRef' = FALSE
  /\ inflight' = {IF r.id \in pendingRequestsRef \/ r.id = abortControllerRef
                    THEN [r EXCEPT !.aborted = TRUE] ELSE r : r \in inflight}
  /\ pendingRequestsRef' = {}
  /\ ev' = [op |-> "unmount", issued |-> FALSE, page |-> 0, mode |-> "none",
            aborted |-> FALSE, payload |-> None, outcome |-> "none"]
  /\ UNCHANGED <<movies, page, totalPages, initialLoading, refreshing, loadingMore,
                 error, loadingRef, fetchedPagesRef, abortControllerRef>>
  /\ UNCHANGED hookFrame

(***************************************************************************)
(* The merge harness: mergeUniqueById applied once and twice to arbitrary  *)
(* lists.                                                                  *)
(***************************************************************************)
MergeIdle ==
  /\ mBase = <<>>
  /\ mIncoming = <<>>
  /\ mOnce = <<>>
  /\ mTwice = <<>>
  /\ mStep = 0

MergeInit ==
  /\ mBase \in MovieLists
  /\ mIncoming \in MovieLists
  /\ mOnce = <<>>
  /\ mTwice = <<>>
  /\ mStep = 0

MergeOnce ==
  /\ mStep = 0
  /\ mOnce' = mergeUniqueById(mBase, mIncoming)
  /\ mStep' = 1
  /\ UNCHANGED <<mBase, mIncoming, mTwice>>
  /\ UNCHANGED mergeFrame

MergeTwice ==
  /\ mStep = 1
  /\ mTwice' = mergeUniqueById(mOnce, mIncoming)
  /\ mStep' = 2
  /\ UNCHANGED <<mBase, mIncoming, mOnce>>
  /\ UNCHANGED mergeFrame

(***************************************************************************)
(* Part 2: the navigator, src/src/navigation/AppNavigator.tsx.             *)
(* Routes (lines 22-25) are records of one shape; a field a route does not *)
(* carry holds 0 or "".                                                    *)
(***************************************************************************)
RouteIds == {42}
Titles == {"Title"}
Tabs == {"popular", "search"}

HomeRoute == [name |-> "Home", movieId |-> 0, movieTitle |-> ""]

MovieDetails(movieId) ==
  [name |-> "MovieDetails", movieId |-> movieId, movieTitle |-> ""]

PostReview(movieId, movieTitle) ==
  [name |-> "PostReview", movieId |-> movieId, movieTitle |-> movieTitle]

NoRoute == [name |-> "none", movieId |-> 0, movieTitle |-> ""]

\* the callbacks handed to scheduleNav: the one of goBack (lines 155-166),
\* of openMovie (line 245), of openPostReview (lines 253-256) and of
\* handleTabPress (lines 173-188)
BackAction == [kind |-> "back", route |-> NoRoute, tab |-> "none"]

PushAction(route) == [kind |-> "push", route |-> route, tab |-> "none"]

TabAction(tab) == [kind |-> "tab", route |-> NoRoute, tab |-> tab]

NoAction == [kind |-> "none", route |-> NoRoute, tab |-> "none"]

\* array[array.length - 1]
Top(list) == list[Len(list)]

\* array.slice(0, -1)
SliceLast(list) == IF list = <<>> THEN <<>> ELSE SubSeq(list, 1, Len(list) - 1)

NavEvent(op, action, branch, ret, before) ==
  [op |-> op, action |-> action, branch |-> branch, ret |-> ret, before |-> before]

NoRun == [phase |-> "none", muts |-> 0, pop |-> FALSE, fromTop |-> FALSE]

NoCall == [action |-> NoAction, superseding |-> FALSE]

\* lines 90-98
NavInit ==
  /\ history = <<HomeRoute>>
  /\ tabHistory = <<>>
  /\ activeTab = "popular"
  /\ backLockRef = FALSE
  /\ historyRef = <<HomeRoute>>
  /\ tabHistoryRef = <<>>
  /\ activeTabRef = "popular"
  /\ navigationTimeoutRef = 0
  /\ timers = {}
  /\ frames = 0
  /\ navMounted = TRUE
  /\ nev = NavEvent("mount", NoAction, "none", "none", 0)

\* the delay handed to setTimeout by scheduleNav, line 145, in ms
Delay == 100

NoAges == [i \in {} |-> 0]

NavObsInit ==
  /\ lastCall = NoCall
  /\ run = NoRun
  /\ ages = NoAges
  /\ quiet = Delay

\* the identity setTimeout returns: one that no pending timer has
NewTimer(pending) ==
  CHOOSE i \in 1..(Cardinality(pending) + 1) :
    /\ \A t \in pending : t.id # i
    /\ \A j \in 1..(Cardinality(pending) + 1) :
         (\A t \in pending : t.id # j) => i <= j

\* clearTimeout(id)
ClearTimeout(pending, id) == {t \in pending : t.id # id}

ScheduleWithoutClear(action) ==
  /\ timers' = timers \cup {[id |-> NewTimer(timers), action |-> action]}
  /\ navigationTimeoutRef' = NewTimer(timers)

\* scheduleNav, lines 138-146
scheduleNav(action) ==
  LET kept == IF navigationTimeoutRef # 0
                THEN ClearTimeout(timers, navigationTimeoutRef)
                ELSE timers
  IN /\ timers' = kept \cup {[id |-> NewTimer(kept), action |-> action]}
     /\ navigationTimeoutRef' = NewTimer(kept)

PopUnguarded(current) == SubSeq(current, 1, Len(current) - 1)

\* the updater of goBack, lines 155-166
Pop(current) ==
  IF Len(current) <= 1 THEN current ELSE SubSeq(current, 1, Len(current) - 1)

ApplyNavAlwaysPushingTab(action) ==
  /\ history' = IF action.kind = "back" THEN Pop(history)
                ELSE IF action.kind = "push" THEN Append(history, action.route)
                ELSE history
  /\ IF action.kind = "tab"
       THEN /\ tabHistory' = Append(tabHistory, activeTab)
            /\ activeTab' = action.tab
       ELSE UNCHANGED <<tabHistory, activeTab>>

\* the callback of a timer, run against the state of the moment
ApplyNav(action) ==
  /\ history' = IF action.kind = "back" THEN Pop(history)
                ELSE IF action.kind = "push" THEN Append(history, action.route)
                ELSE history
  /\ IF action.kind = "tab" /\ activeTab # action.tab
       THEN /\ tabHistory' = Append(tabHistory, activeTab)
            /\ activeTab' = action.tab
       ELSE UNCHANGED <<tabHistory, activeTab>>

\* a call of an entry point that only hands its callback to scheduleNav
Debounced(op, action) ==
  /\ navMounted
  /\ scheduleNav(action)
  /\ nev' = NavEvent(op, action, "none", "none", Len(history))
  /\ UNCHANGED <<history, tabHistory, activeTab, backLockRef, historyRef,
                 tabHistoryRef, activeTabRef, frames, navMounted>>
  /\ UNCHANGED navFrame

\* goBack, lines 148-168
goBack == Debounced("goBack", BackAction)

\* openMovie, lines 243-248
openMovie(movieId) ==
  /\ Len(history) < MaxDepth
  /\ Debounced("openMovie", PushAction(MovieDetails(movieId)))

\* openPostReview, lines 251-259
openPostReview(movieId, movieTitle) ==
  /\ Len(history) < MaxDepth
  /\ Debounced("openPostReview", PushAction(PostReview(movieId, movieTitle)))

\* handleTabPress, lines 170-190
handleTabPress(tab) ==
  /\ Len(tabHistory) < MaxTabHistory
  /\ Debounced("tabPress", TabAction(tab))

HardwareBackWithoutLock ==
  /\ navMounted
  /\ backLockRef' = TRUE
  /\ frames' = frames + 1
  /\ IF Top(historyRef).name # "Home"
       THEN /\ scheduleNav(BackAction)
            /\ nev' = NavEvent("hardwareBack", BackAction, "pop", "true", Len(history))
            /\ UNCHANGED <<history, tabHistory, activeTab>>
       ELSE IF Len(tabHistoryRef) > 0
         THEN /\ tabHistory' = SliceLast(tabHistory)
              /\ activeTab' = Top(tabHistoryRef)
              /\ nev' = NavEvent("hardwareBack", NoAction, "tab", "true", Len(history))
              /\ UNCHANGED <<history, navigationTimeoutRef, timers>>
         ELSE /\ nev' = NavEvent("hardwareBack", NoAction, "exit", "false", Len(history))
              /\ UNCHANGED <<history, tabHistory, activeTab,
                             navigationTimeoutRef, timers>>
  /\ UNCHANGED <<historyRef, tabHistoryRef, activeTabRef, navMounted>>
  /\ UNCHANGED navFrame

HardwareBackExitKeepsLock ==
  /\ navMounted
  /\ IF backLockRef
       THEN /\ nev' = NavEvent("hardwareBack", NoAction, "locked", "true", Len(history))
            /\ UNCHANGED <<history, tabHistory, activeTab, backLockRef,
                           navigationTimeoutRef, timers, frames>>
       ELSE /\ backLockRef' = TRUE
            /\ IF Top(historyRef).name # "Home"
                 THEN /\ scheduleNav(BackAction)
                      /\ frames' = frames + 1
                      /\ nev' = NavEvent("hardwareBack", BackAction, "pop", "true",
                                         Len(history))
                      /\ UNCHANGED <<history, tabHistory, activeTab>>
                 ELSE IF Len(tabHistoryRef) > 0
                   THEN /\ tabHistory' = SliceLast(tabHistory)
                        /\ activeTab' = Top(tabHistoryRef)
                        /\ frames' = frames + 1
                        /\ nev' = NavEvent("hardwareBack", NoAction, "tab", "true",
                                           Len(history))
                        /\ UNCHANGED <<history, navigationTimeoutRef, timers>>
                   ELSE /\ nev' = NavEvent("hardwareBack", NoAction, "exit", "false",
                                           Len(history))
                        /\ UNCHANGED <<history, tabHistory, activeTab,
                                       navigationTimeoutRef, timers, frames>>
  /\ UNCHANGED <<historyRef, tabHistoryRef, activeTabRef, navMounted>>
  /\ UNCHANGED navFrame

\* handleHardwareBack, lines 193-227, with releaseBackLock (lines 116-120)
\* queueing its frame callback
handleHardwareBack ==
  /\ navMounted
  /\ IF backLockRef
       THEN /\ nev' = NavEvent("hardwareBack", NoAction, "locked", "true", Len(history))
            /\ UNCHANGED <<history, tabHistory, activeTab, backLockRef,
                           navigationTimeoutRef, timers, frames>>
       ELSE /\ backLockRef' = TRUE
            /\ frames' = frames + 1
            /\ IF Top(historyRef).name # "Home"
                 THEN /\ scheduleNav(BackAction)
                      /\ nev' = NavEvent("hardwareBack", BackAction, "pop", "true",
                                         Len(history))
                      /\ UNCHANGED <<history, tabHistory, activeTab>>
                 ELSE IF Len(tabHistoryRef) > 0
                   THEN /\ tabHistory' = SliceLast(tabHistory)
                        /\ activeTab' = Top(tabHistoryRef)
                        /\ nev' = NavEvent("hardwareBack", NoAction, "tab", "true",
                                           Len(history))
                        /\ UNCHANGED <<history, navigationTimeoutRef, timers>>
                   ELSE /\ nev' = NavEvent("hardwareBack", NoAction, "exit", "false",
                                           Len(history))
                        /\ UNCHANGED <<history, tabHistory, activeTab,
                                       navigationTimeoutRef, timers>>
  /\ UNCHANGED <<historyRef, tabHistoryRef, activeTabRef, navMounted>>
  /\ UNCHANGED navFrame

\* the callback of setTimeout, lines 142-145: timer t fires
TimerFires(t) ==
  /\ t \in timers
  /\ timers' = timers \ {t}
  /\ ApplyNav(t.action)
  /\ navigationTimeoutRef' = 0
  /\ nev' = NavEvent("timer", t.action, "none", "none", Len(history))
  /\ UNCHANGED <<backLockRef, historyRef, tabHistoryRef, activeTabRef, frames,
                 navMounted>>
  /\ UNCHANGED navFrame

\* the callback of requestAnimationFrame, lines 117-119
FrameCallback ==
  /\ frames > 0
  /\ frames' = frames - 1
  /\ backLockRef' = FALSE
  /\ nev' = NavEvent("frame", NoAction, "none", "none", Len(history))
  /\ UNCHANGED <<history, tabHistory, activeTab, historyRef, tabHistoryRef,
                 activeTabRef, navigationTimeoutRef, timers, navMounted>>
  /\ UNCHANGED navFrame

\* the effects of lines 102-112, run after the render that follows a change
\* of history, tabHistory or activeTab
SyncRefs ==
  /\ navMounted
  /\ <<historyRef, tabHistoryRef, activeTabRef>> # <<history, tabHistory, activeTab>>
  /\ historyRef' = history
  /\ tabHistoryRef' = tabHistory
  /\ activeTabRef' = activeTab
  /\ nev' = NavEvent("sync", NoAction, "none", "none", Len(history))
  /\ UNCHANGED <<history, tabHistory, activeTab, backLockRef,
                 navigationTimeoutRef, timers, frames, navMounted>>
  /\ UNCHANGED navFrame

NavUnmountWithoutClear ==
  /\ navMounted
  /\ navMounted' = FALSE
  /\ nev' = NavEvent("unmount", NoAction, "none", "none", Len(history))
  /\ UNCHANGED <<history, tabHistory, activeTab, backLockRef, historyRef,
                 tabHistoryRef, activeTabRef, navigationTimeoutRef, timers, frames>>
  /\ UNCHANGED navFrame

\* the unmount of AppNavigator: the cleanup of lines 234-240 removes the
\* BackHandler subscription and clears the timer navigationTimeoutRef names;
\* the ref keeps its value and queued frame callbacks stay queued.  The
\* entry points are called by the screens the navigator renders and the
\* effects of lines 102-112 run after its renders, so none of them runs
\* once it is unmounted.
NavUnmount ==
  /\ navMounted
  /\ navMounted' = FALSE
  /\ timers' = IF navigationTimeoutRef # 0
                 THEN ClearTimeout(timers, navigationTimeoutRef)
                 ELSE timers
  /\ nev' = NavEvent("unmount", NoAction, "none", "none", Len(history))
  /\ UNCHANGED <<history, tabHistory, activeTab, backLockRef, historyRef,
                 tabHistoryRef, activeTabRef, navigationTimeoutRef, frames>>
  /\ UNCHANGED navFrame

(***************************************************************************)
(* Part 3: the TMDB service, src/src/services/tmdb-service.ts.  One call   *)
(* of a fetcher is followed through assertApiKey and the loop of           *)
(* requestWithRetry; its segments are the call up to the first await, the  *)
(* continuation after an attempt settled, and the continuation after the   *)
(* wait.                                                                   *)
(***************************************************************************)
\* the default of requestWithRetry's second parameter (line 83); no fetcher
\* passes another value
retries == 2

Fetchers ==
  {"fetchPopularMovies", "searchMovies", "fetchMovieDetailsBundle", "fetchMovieReviews"}

\* the HTTP requests one attempt of a fetcher issues: the bundle sends three
\* (lines 152-165), the others one
Gets(name) == IF name = "fetchMovieDetailsBundle" THEN 3 ELSE 1

\* response.data
Payloads == {"data1", "data2"}

\* what an attempt may reject with, as far as lines 37-81 look at it:
\* whether axios.isAxiosError holds, error.code, error.message and
\* error.response.status (0: no response)
AxiosError(code, message, status) ==
  [isAxiosError |-> TRUE, code |-> code, message |-> message, status |-> status]

\* a value that is not an AxiosError, thrown inside the request closure
OtherError ==
  [isAxiosError |-> FALSE, code |-> "", message |-> "undefined is not an object",
   status |-> 0]

NetworkError == AxiosError("ERR_NETWORK", "Network Error", 0)

\* the timeout of line 13
TimeoutError == AxiosError("ECONNABORTED", "timeout of 15000ms exceeded", 0)

\* the transport's request was aborted under axios
RequestAborted == AxiosError("ECONNABORTED", "Request aborted", 0)

\* what axios rejects with when the signal of the request config is aborted
CanceledError == AxiosError("ERR_CANCELED", "canceled", 0)

Statuses == {401, 404, 429, 500, 503}

StatusError(status) ==
  AxiosError(IF status >= 500 THEN "ERR_BAD_RESPONSE" ELSE "ERR_BAD_REQUEST",
             "Request failed with status code", status)

NoFailure == [isAxiosError |-> FALSE, code |-> "", message |-> "", status |-> 0]

\* the failures of an attempt: once the signal handed to axios (lines 120,
\* 135, 155, 159, 163, 182) is aborted the attempt is rejected as cancelled,
\* in one of the two shapes above
Failures(aborted) ==
  IF aborted THEN {CanceledError, RequestAborted}
  ELSE {OtherError, NetworkError, TimeoutError, RequestAborted}
         \cup {StatusError(status) : status \in Statuses}

\* the decimal digits of a template literal's number
Digit(d) ==
  CASE d = 0 -> "0" [] d = 1 -> "1" [] d = 2 -> "2" [] d = 3 -> "3" [] d = 4 -> "4"
    [] d = 5 -> "5" [] d = 6 -> "6" [] d = 7 -> "7" [] d = 8 -> "8" [] d = 9 -> "9"

RECURSIVE Decimal(_)
Decimal(n) == IF n < 10 THEN Digit(n) ELSE Decimal(n \div 10) \o Digit(n % 10)

validateEnvSkipped == Null

\* validateEnv, src/src/config/env.ts lines 13-24
validateEnv == IF ~apiKey THEN ConfigurationError ELSE Null

RetriesEverything(err) == TRUE

\* isRetriableError, lines 37-47
isRetriableError(err) ==
  IF ~err.isAxiosError THEN FALSE
  ELSE IF err.status = 0 THEN TRUE
  ELSE err.status >= 500

\* getReadableError, lines 49-81
getReadableError(err) ==
  IF ~err.isAxiosError THEN "Unexpected error while contacting TMDB."
  ELSE IF err.code = "CANCELLED" \/ IncludesAborted(err.message) THEN Null
  ELSE IF err.code = "ECONNABORTED" THEN "Request timed out. Please try again."
  ELSE IF err.status = 0
    THEN "Cannot connect to TMDB. Check internet access or DNS configuration."
  ELSE IF err.status = 401 THEN "TMDB API key is invalid or unauthorized."
  ELSE IF err.status = 429
    THEN "TMDB rate limit reached. Please retry in a few seconds."
  ELSE IF err.status >= 500
    THEN "TMDB is temporarily unavailable. Please try again shortly."
  ELSE "TMDB request failed (" \o Decimal(err.status) \o ")."

ConstantBackoff(n) == 400

\* the argument of wait at line 104, n being the value of attempt
Backoff(n) == 400 * (n + 1)

GivesUpOnlyWhenNotRetriable(err, n) == ~isRetriableError(err)

\* the condition of line 101
GivesUp(err, n) == n = retries \/ ~isRetriableError(err)

NoResult == [kind |-> "none", value |-> ""]

\* the promise of the fetcher is fulfilled with value, or rejected with an
\* Error of this message
Returned(value) == [kind |-> "returned", value |-> value]

ThrownError(message) == [kind |-> "thrown", value |-> message]

\* the service before a fetcher is called, with the credential present
SvcIdle ==
  /\ apiKey = TRUE
  /\ svcPc = "idle"
  /\ fetcher = "none"
  /\ attempt = 0
  /\ requests = 0
  /\ httpRequests = 0
  /\ waits = <<>>
  /\ signalAborted = FALSE
  /\ lastFailure = NoFailure
  /\ svcResult = NoResult

\* the same with the credential of the build present or absent
SvcInit ==
  /\ apiKey \in BOOLEAN
  /\ svcPc = "idle"
  /\ fetcher = "none"
  /\ attempt = 0
  /\ requests = 0
  /\ httpRequests = 0
  /\ waits = <<>>
  /\ signalAborted = FALSE
  /\ lastFailure = NoFailure
  /\ svcResult = NoResult

\* line 91: request() is called and awaited
IssueRequest(name) ==
  /\ svcPc' = "requesting"
  /\ requests' = requests + 1
  /\ httpRequests' = httpRequests + Gets(name)
  /\ UNCHANGED svcResult

\* a throw out of the async fetcher: its promise is rejected
Throw(message) ==
  /\ svcPc' = "done"
  /\ svcResult' = ThrownError(message)

\* a fetcher of lines 115-185 is called: assertApiKey (lines 16-23), then
\* requestWithRetry up to the await of the first attempt
CallFetcher(name) ==
  /\ svcPc = "idle"
  /\ fetcher' = name
  /\ IF validateEnv # Null
       THEN /\ Throw(validateEnv)
            /\ UNCHANGED <<requests, httpRequests>>
       ELSE IssueRequest(name)
  /\ UNCHANGED <<apiKey, attempt, waits, signalAborted, lastFailure>>
  /\ UNCHANGED svcFrame

\* lines 91-92: the attempt succeeded
AttemptResolves(data) ==
  /\ svcPc = "requesting"
  /\ ~signalAborted
  /\ svcPc' = "done"
  /\ svcResult' = Returned(data)
  /\ UNCHANGED <<apiKey, fetcher, attempt, requests, httpRequests, waits,
                 signalAborted, lastFailure>>
  /\ UNCHANGED svcFrame

\* lines 93-106: the attempt failed with error
AttemptRejects(err) ==
  /\ svcPc = "requesting"
  /\ lastFailure' = err
  /\ IF getReadableError(err) = Null
       THEN /\ Throw("Request cancelled")
            /\ UNCHANGED waits
       ELSE IF GivesUp(err, attempt)
         THEN /\ Throw(getReadableError(err))
              /\ UNCHANGED waits
         ELSE /\ svcPc' = "waiting"
              /\ waits' = Append(waits, Backoff(attempt))
              /\ UNCHANGED svcResult
  /\ UNCHANGED <<apiKey, fetcher, attempt, requests, httpRequests, signalAborted>>
  /\ UNCHANGED svcFrame

\* lines 104-105 and the loop condition of line 89: the wait is over
WaitElapses ==
  /\ svcPc = "waiting"
  /\ attempt' = attempt + 1
  /\ IF attempt + 1 <= retries
       THEN IssueRequest(fetcher)
       ELSE /\ Throw("Unexpected network state.")
            /\ UNCHANGED <<requests, httpRequests>>
  /\ UNCHANGED <<apiKey, fetcher, waits, signalAborted, lastFailure>>
  /\ UNCHANGED svcFrame

\* the caller aborts the signal it passed while the call is under way
AbortSignal ==
  /\ svcPc \in {"requesting", "waiting"}
  /\ ~signalAborted
  /\ signalAborted' = TRUE
  /\ UNCHANGED <<apiKey, svcPc, fetcher, attempt, requests, httpRequests, waits,
                 lastFailure, svcResult>>
  /\ UNCHANGED svcFrame

(***************************************************************************)
(* Part 4: the helper hook useStableNavigation,                            *)
(* src/src/hooks/useStableNavigation.ts.  The callback of the n-th call of *)
(* debounceNavigation is named n; every call uses the default delay.  A    *)
(* pending timer carries the ms since its setTimeout call, up to the       *)
(* delay, and fires no earlier than the delay.                             *)
(***************************************************************************)
\* the default of the delay parameter, line 12, in ms
StableDelay == 100

\* the timer of lines 27-30, and the one of line 21 for callback cb
ReleaseTimer(id) == [id |-> id, kind |-> "release", cb |-> 0, age |-> 0]

CallbackTimer(id, cb) == [id |-> id, kind |-> "callback", cb |-> cb, age |-> 0]

StableEvent(op, cb, immediate) == [op |-> op, cb |-> cb, immediate |-> immediate]

\* lines 8-9
StableInit ==
  /\ stableTimeoutRef = 0
  /\ navigationInProgressRef = FALSE
  /\ stableTimers = {}
  /\ calls = 0
  /\ ran = [cb \in 1..MaxCalls |-> 0]
  /\ windowRuns = 0
  /\ sev = StableEvent("mount", 0, FALSE)

\* debounceNavigation, lines 11-35
debounceNavigation ==
  LET callback == calls + 1
      kept == IF stableTimeoutRef # 0
                THEN ClearTimeout(stableTimers, stableTimeoutRef)
                ELSE stableTimers
  IN /\ calls < MaxCalls
     /\ calls' = callback
     /\ stableTimeoutRef' = NewTimer(kept)
     /\ IF navigationInProgressRef
          THEN /\ stableTimers' = kept \cup {CallbackTimer(NewTimer(kept), callback)}
               /\ sev' = StableEvent("call", callback, FALSE)
               /\ UNCHANGED <<navigationInProgressRef, ran, windowRuns>>
          ELSE /\ navigationInProgressRef' = TRUE
               /\ stableTimers' = kept \cup {ReleaseTimer(NewTimer(kept))}
               /\ ran' = [ran EXCEPT ![callback] = @ + 1]
               /\ windowRuns' = 0
               /\ sev' = StableEvent("call", callback, TRUE)
     /\ UNCHANGED stableFrame

\* a timer fires: the callback of lines 27-30, or the queued callback of
\* line 21
StableTimerFires(t) ==
  /\ t \in stableTimers
  /\ t.age >= StableDelay
  /\ stableTimers' = stableTimers \ {t}
  /\ IF t.kind = "release"
       THEN /\ navigationInProgressRef' = FALSE
            /\ stableTimeoutRef' = 0
            /\ UNCHANGED <<ran, windowRuns>>
       ELSE /\ ran' = [ran EXCEPT ![t.cb] = @ + 1]
            /\ windowRuns' = IF windowRuns < 2 THEN windowRuns + 1 ELSE 2
            /\ UNCHANGED <<navigationInProgressRef, stableTimeoutRef>>
  /\ sev' = StableEvent(t.kind, t.cb, FALSE)
  /\ UNCHANGED calls
  /\ UNCHANGED stableFrame

\* time passes while a timer is not yet due
StableTick ==
  /\ \E t \in stableTimers : t.age < StableDelay
  /\ stableTimers' =
       {[t EXCEPT !.age = IF @ + TickMs < StableDelay THEN @ + TickMs ELSE StableDelay] :
          t \in stableTimers}
  /\ sev' = StableEvent("tick", 0, FALSE)
  /\ UNCHANGED <<stableTimeoutRef, navigationInProgressRef, calls, ran, windowRuns>>
  /\ UNCHANGED stableFrame

\* cleanup, lines 37-42
cleanup ==
  /\ stableTimers' = IF stableTimeoutRef # 0
                       THEN ClearTimeout(stableTimers, stableTimeoutRef)
                       ELSE stableTimers
  /\ navigationInProgressRef' = FALSE
  /\ windowRuns' = 0
  /\ sev' = StableEvent("cleanup", 0, FALSE)
  /\ UNCHANGED <<stableTimeoutRef, calls, ran>>
  /\ UNCHANGED stableFrame

(***************************************************************************)
(* Specifications.                                                         *)
(***************************************************************************)
Init ==
  HookInit /\ ObsInit /\ MergeIdle /\ NavInit /\ NavObsInit /\ SvcIdle /\ StableInit

\* what the fetcher may answer to request r: any response, of which one is
\* enough when the hook returns without reading it
Answers(r) == IF ~mountedRef \/ r.aborted THEN {UnreadResponse} ELSE Responses

Resolve == \E r \in inflight : \E resp \in Answers(r) : FetchResolve(r, resp)

Reject == \E r \in inflight : \E thrown \in Thrown : FetchReject(r, thrown)

Next ==
  \/ ResetAndLoad /\ UNCHANGED obsVars
  \/ Refresh /\ UNCHANGED obsVars
  \/ LoadNext /\ UNCHANGED obsVars
  \/ Resolve /\ UNCHANGED obsVars
  \/ Reject /\ UNCHANGED obsVars
  \/ Unmount /\ UNCHANGED obsVars

Spec == Init /\ [][Next]_vars

InitMerge ==
  HookInit /\ ObsInit /\ MergeInit /\ NavInit /\ NavObsInit /\ SvcIdle /\ StableInit

NextMerge == MergeOnce \/ MergeTwice

SpecMerge == InitMerge /\ [][NextMerge]_vars

(***************************************************************************)
(* The sequential scenario: page 1 is loaded by resetAndLoad(), then       *)
(* loadNext() is called again and again, each call after the previous one  *)
(* completed, against a source that answers the page it was asked for and  *)
(* reports one and the same total_pages.  The observer records the pages   *)
(* requested and, per id, the newest record the source served.             *)
(***************************************************************************)
Overlay(f, results) ==
  [i \in 1..MaxId |->
     IF \E k \in 1..Len(results) : results[k].id = i
       THEN (CHOOSE m \in {results[k] : k \in 1..Len(results)} : m.id = i).rev
       ELSE f[i]]

Observe ==
  /\ pre' = pre
  /\ reqLog' = IF inflight' \ inflight # {}
                 THEN Append(reqLog, (CHOOSE r \in inflight' \ inflight : TRUE).page)
                 ELSE reqLog
  /\ unionById' = IF ev'.op = "resolve" /\ ~ev'.aborted /\ mountedRef
                    THEN Overlay(IF ev'.mode = "append" THEN unionById
                                 ELSE [i \in 1..MaxId |-> "-"], ev'.payload)
                    ELSE unionById

\* the answer of a well-behaved source to request r
Honest(r, resp) ==
  /\ resp.page = r.page
  /\ resp.total_pages >= r.page
  /\ r.mode = "append" => resp.total_pages = totalPages

SeqStart == ev.op = "mount" /\ ResetAndLoad /\ Observe

SeqLoadNext == ev.op # "mount" /\ inflight = {} /\ LoadNext /\ Observe

SeqResolve ==
  \E r \in inflight : \E resp \in Answers(r) :
    Honest(r, resp) /\ FetchResolve(r, resp) /\ Observe

NextSeq == SeqStart \/ SeqLoadNext \/ SeqResolve

SpecSeq == Init /\ [][NextSeq]_vars

(***************************************************************************)
(* The hook under the call observer: every step of Spec, with `pre`        *)
(* telling whether items (movies), and paging (page and totalPages), have  *)
(* kept the values they had before the call whose request is awaited, and  *)
(* whether a resetAndLoad() call has been dropped since that call.         *)
(***************************************************************************)
ObservePre ==
  /\ pre' = IF ev'.op = "resolve" THEN NoSnapshot
            ELSE [items |-> (inflight' \ inflight # {} \/ pre.items)
                              /\ movies' = movies,
                  paging |-> (inflight' \ inflight # {} \/ pre.paging)
                              /\ page' = page /\ totalPages' = totalPages,
                  reset |-> inflight' \ inflight = {}
                              /\ (pre.reset \/ ev'.op = "resetAndLoad")]
  /\ UNCHANGED <<reqLog, unionById>>

NextPre ==
  \/ ResetAndLoad /\ ObservePre
  \/ Refresh /\ ObservePre
  \/ LoadNext /\ ObservePre
  \/ Resolve /\ ObservePre
  \/ Reject /\ ObservePre
  \/ Unmount /\ ObservePre

SpecPre == Init /\ [][NextPre]_vars

(***************************************************************************)
(* The navigator under its observers.                                      *)
(*                                                                         *)
(* lastCall holds the callback of the latest scheduleNav call, and whether *)
(* that call cleared a pending timer with another callback, while the      *)
(* callback is pending or has just run.                                    *)
(*                                                                         *)
(* run follows the hardware back requests made since the latest call of    *)
(* goBack, openMovie, openPostReview or handleTabPress.  Its phase is      *)
(* "one" after the first accepted request, "pair" once a further request   *)
(* was ignored while the lock of the first was held, "two" after the       *)
(* second accepted request and "more" after that.  muts counts the changes *)
(* of history since the first request (in phases "one" and "pair"), pop    *)
(* tells whether the first request scheduled a pop on a history of more    *)
(* than one route, fromTop whether it found history to be ScenarioStack.   *)
(***************************************************************************)
EntryOps == {"goBack", "openMovie", "openPostReview", "tabPress"}

ScenarioStack == <<HomeRoute, MovieDetails(42), PostReview(42, "Title")>>

Min(a, b) == IF a <= b THEN a ELSE b

ObserveNav ==
  /\ lastCall' =
       IF nev'.op \in EntryOps \/ nev'.branch = "pop"
         THEN [action |-> nev'.action,
               superseding |-> \E t \in timers : t.action # nev'.action]
         ELSE IF nev'.op # "timer" /\ timers' = {} THEN NoCall ELSE lastCall
  /\ run' =
       IF nev'.op \in EntryOps THEN NoRun
       ELSE IF nev'.op = "hardwareBack" /\ nev'.branch = "locked"
         THEN [run EXCEPT !.phase = IF run.phase = "one" THEN "pair" ELSE run.phase]
       ELSE IF nev'.op = "hardwareBack" /\ run.phase = "none"
         THEN [phase |-> "one", muts |-> 0,
               pop |-> nev'.branch = "pop" /\ Len(history) > 1,
               fromTop |-> history = ScenarioStack]
       ELSE IF nev'.op = "hardwareBack" /\ run.phase \in {"one", "pair"}
         THEN [phase |-> "two", muts |-> 0, pop |-> FALSE, fromTop |-> run.fromTop]
       ELSE IF nev'.op = "hardwareBack"
         THEN [phase |-> "more", muts |-> 0, pop |-> FALSE, fromTop |-> FALSE]
       ELSE IF nev'.op = "timer" /\ run.phase \in {"one", "pair"}
               /\ history' # history
         THEN [run EXCEPT !.muts = Min(2, run.muts + 1)]
       ELSE run
  /\ UNCHANGED <<ages, quiet>>

NextNav ==
  \/ goBack /\ ObserveNav
  \/ (\E movieId \in RouteIds : openMovie(movieId)) /\ ObserveNav
  \/ (\E movieId \in RouteIds : \E movieTitle \in Titles :
        openPostReview(movieId, movieTitle)) /\ ObserveNav
  \/ (\E tab \in Tabs : handleTabPress(tab)) /\ ObserveNav
  \/ handleHardwareBack /\ ObserveNav
  \/ (\E t \in timers : TimerFires(t)) /\ ObserveNav
  \/ FrameCallback /\ ObserveNav
  \/ SyncRefs /\ ObserveNav
  \/ NavUnmount /\ ObserveNav

SpecNav == Init /\ [][NextNav]_vars

(***************************************************************************)
(* Properties of the paginated fetch controller.                           *)
(***************************************************************************)
CallOps == {"resetAndLoad", "refresh", "loadNext"}

\* C1: in every reachable state at most one fetcher request is outstanding,
\* and a call of resetAndLoad/refresh/loadNext made while a request is
\* outstanding issues no new request.
C1_AtMostOneOutstanding ==
  /\ [](Cardinality(inflight) <= 1)
  /\ [][(inflight # {} /\ ev'.op \in CallOps) => inflight' = inflight]_vars

C1_Witness == mountedRef /\ inflight # {} /\ ev.op \in CallOps /\ ~ev.issued

\* C2 (as claimed): a call that is dropped because a fetch is in flight leaves
\* items, page, totalPages, fetchedPages, the loading status and error as
\* they were.
C2_DroppedCallIsNoOp ==
  [][(inflight # {} /\ ev'.op \in CallOps /\ ~ev'.issued)
       => UNCHANGED <<movies, page, totalPages, fetchedPagesRef,
                      initialLoading, refreshing, loadingMore, error>>]_vars

\* C3: a call that reaches loadPage with a target page that is in
\* fetchedPages issues no fetcher request and changes none of items, page,
\* totalPages, the loading status and error.
C3_FetchedPageIsNotRefetched ==
  [][(ev'.op \in CallOps /\ ev'.page \in fetchedPagesRef')
       => /\ inflight' = inflight
          /\ UNCHANGED <<movies, page, totalPages,
                         initialLoading, refreshing, loadingMore, error>>]_vars

C3_Witness ==
  /\ mountedRef /\ ~loadingRef
  /\ ev.op = "loadNext" /\ ~ev.issued /\ ev.page \in fetchedPagesRef

\* C4 (as claimed): once a call of resetAndLoad() has completed, by being
\* dropped or by its fetcher resolving, with the view mounted and no error
\* recorded, items equals exactly the results served for page 1.
C4_ResetAndLoadYieldsPageOne ==
  (/\ mountedRef
   /\ error = Null
   /\ \/ ev.op = "resetAndLoad" /\ ~ev.issued
      \/ ev.op = "resolve" /\ ev.mode = "initial")
    => (ev.op = "resolve" /\ movies = ev.payload)

\* C5: the completion of a fetch that was cancelled, whether its fetcher
\* resolves or rejects, leaves the loading status, items, page and
\* totalPages unchanged and does not set error.
C5_CancelledFetchChangesNothing ==
  [][(ev'.op \in {"resolve", "reject"} /\ ev'.aborted)
       => UNCHANGED <<initialLoading, refreshing, loadingMore,
                      movies, page, totalPages, error>>]_vars

C5_Witness ==
  /\ ev.aborted /\ loadingMore
  /\ \/ ev.op = "resolve" /\ ev.payload # <<>>
     \/ ev.op = "reject" /\ ev.payload.message = "Network Error"

\* a fetch failed for a reason other than cancellation, with the view mounted
FailedNotCancelled ==
  /\ ev.op = "reject"
  /\ mountedRef
  /\ ~ev.aborted
  /\ ~(ev.payload.isError /\ IncludesAborted(ev.payload.message))

\* C6 (as claimed): when a fetch fails for a reason other than cancellation,
\* error is set to a message and items, page and totalPages have the values
\* they had before the failing operation was called.
C6_FailureKeepsValuesBeforeCall ==
  FailedNotCancelled =>
    /\ error # Null
    /\ pre.items
    /\ pre.paging

\* C6 (amended): when a fetch fails for a reason other than cancellation,
\* error is set to the failure's message (the default message when the
\* thrown value is no Error) and items has the value it had before the
\* failing operation was called; page and totalPages are 0 and 1 when the
\* failing operation is resetAndLoad or a resetAndLoad() call was dropped
\* while the fetch was awaited, and otherwise have the values they had
\* before the failing operation was called.
C6_FailureKeepsValuesAtFetch ==
  FailedNotCancelled =>
    /\ error = IF ev.payload.isError THEN ev.payload.message
               ELSE "Unable to fetch movies right now. Please try again."
    /\ pre.items
    /\ IF ev.mode = "initial" \/ pre.reset
         THEN page = 0 /\ totalPages = 1
         ELSE pre.paging

C6_Witness ==
  /\ FailedNotCancelled
  /\ ev.mode = "initial"
  /\ error = "Network Error"
  /\ ~pre.paging /\ ~pre.reset /\ page = 0 /\ movies # <<>>

\* new is the union by id of old and inc, the record of inc winning
UnionById(old, inc, new) ==
  /\ NoDupIds(new)
  /\ Ids(new) = Ids(old) \cup Ids(inc)
  /\ \A k \in 1..Len(inc) : \E j \in 1..Len(new) : new[j] = inc[k]
  /\ \A k \in 1..Len(old) :
       old[k].id \notin Ids(inc) => \E j \in 1..Len(new) : new[j] = old[k]

\* the step delivers the response of an append fetch
AppendDelivered ==
  ev'.op = "resolve" /\ ev'.mode = "append" /\ ~ev'.aborted /\ mountedRef

\* the step issues exactly one request, for page p in mode m
IssuesExactly(p, m) ==
  \E r \in inflight' :
    /\ r \notin inflight
    /\ inflight' = inflight \cup {r}
    /\ r.page = p /\ r.mode = m /\ ~r.aborted

\* C7 (as claimed): loadNext() issues no request when page >= totalPages or
\* a fetch is in flight, and otherwise requests exactly page + 1 in append
\* mode; on success items becomes the union by id of the old items and the
\* incoming results, the incoming record winning.
C7_LoadNextRequestsNextPage ==
  [][/\ ev'.op = "loadNext" =>
          IF page >= totalPages \/ inflight # {}
            THEN inflight' = inflight
            ELSE IssuesExactly(page + 1, "append")
     /\ AppendDelivered => UnionById(movies, ev'.payload, movies')]_vars

\* C7 (amended): loadNext() issues no request when page >= totalPages, a
\* fetch is in flight or page + 1 is already in fetchedPages, and otherwise
\* requests exactly page + 1 in append mode; on success items becomes the
\* union by id of the old items and the incoming results, the incoming
\* record winning.
C7_LoadNextRequestsUnfetchedNextPage ==
  [][/\ ev'.op = "loadNext" =>
          IF page >= totalPages \/ inflight # {} \/ page + 1 \in fetchedPagesRef
            THEN inflight' = inflight
            ELSE IssuesExactly(page + 1, "append")
     /\ AppendDelivered => UnionById(movies, ev'.payload, movies')]_vars

C7_Witness ==
  /\ ev.op = "resolve" /\ ev.mode = "append" /\ ~ev.aborted /\ mountedRef
  /\ ev.page = page
  /\ Len(movies) = 2 /\ Len(ev.payload) = 1
  /\ movies[1] = ev.payload[1]

\* C8: in the sequential scenario the pages are requested once each in
\* increasing order and never beyond total_pages, items never holds two
\* entries of one id, whenever no fetch is awaited items is the union by id
\* of the pages served so far and the requests made are exactly pages
\* 1..page, and a loadNext() made once page = totalPages issues no request.
C8_SequentialLoadCoversAllPages ==
  /\ reqLog = [i \in 1..Len(reqLog) |-> i]
  /\ ev.op # "mount" /\ page >= 1 => Len(reqLog) <= totalPages
  /\ NoDupIds(movies)
  /\ inflight = {} =>
       /\ Len(reqLog) = page
       /\ {movies[i] : i \in 1..Len(movies)} =
            {[id |-> i, rev |-> unionById[i]] :
               i \in {j \in 1..MaxId : unionById[j] # "-"}}
  /\ (ev.op = "loadNext" /\ page = totalPages) => ~ev.issued

C8_Witness ==
  /\ ev.op = "loadNext" /\ ~ev.issued /\ inflight = {}
  /\ page = MaxPages /\ totalPages = MaxPages
  /\ reqLog = [i \in 1..MaxPages |-> i]
  /\ Len(movies) = 2

\* C9: merging a page into items is idempotent, in content and in order:
\* mergeUniqueById(mergeUniqueById(B, I), I) = mergeUniqueById(B, I).
C9_MergeIdempotent == mStep = 2 => mTwice = mOnce

C9_Witness ==
  /\ mStep = 2
  /\ ~NoDupIds(mBase)
  /\ Len(mIncoming) = 2
  /\ Ids(mIncoming) \cap Ids(mBase) # {}
  /\ Len(mOnce) = 2

C11_TeardownAbortsAndSilences ==
  /\ [](~mountedRef => \A r \in inflight : r.aborted)
  /\ [][(~mountedRef /\ ev'.op \in {"resolve", "reject"})
         => UNCHANGED <<movies, page, totalPages, fetchedPagesRef,
                        initialLoading, refreshing, loadingMore, error>>]_vars

C11_Witness ==
  /\ ~mountedRef /\ inflight = {}
  /\ ev.op = "reject" /\ ev.payload.message = "Network Error"
  /\ refreshing /\ error = Null /\ movies # <<>> /\ fetchedPagesRef = {}

C13_NextCallClearsError == ev.op \in CallOps => error = Null

\* C13 (amended): after a failed fetch has set error, the next call of
\* resetAndLoad() or refresh() sets error to null, and so does the next call
\* of loadNext() unless it returns early because page >= totalPages or
\* because page + 1 is in fetchedPages; that loadNext() issues no request and
\* leaves error as it is.
C13_NextFetchClearsError ==
  (ev.op \in CallOps /\ error # Null) =>
    /\ ev.op = "loadNext"
    /\ ~ev.issued
    /\ inflight = {}
    /\ page >= totalPages \/ page + 1 \in fetchedPagesRef

C13_Witness ==
  /\ mountedRef /\ ev.op = "loadNext" /\ ~ev.issued
  /\ error = "Network Error"
  /\ page = 1 /\ totalPages = 1 /\ movies # <<>>

(***************************************************************************)
(* Properties of the view history navigator.                               *)
(***************************************************************************)
\* C14: in every reachable state history is non-empty and its first element
\* is Home, and the pop of a timer that finds history to be [Home] leaves it
\* [Home].
C14_StackKeepsHome ==
  /\ history # <<>>
  /\ history[1] = HomeRoute
  /\ (nev.op = "timer" /\ nev.action = BackAction /\ nev.before = 1)
       => history = <<HomeRoute>>

C14_Witness ==
  /\ nev.op = "timer" /\ nev.action = BackAction /\ nev.before = 1
  /\ history = <<HomeRoute>> /\ historyRef = <<HomeRoute>>

\* a hardware back request that arrives while backLock is held returns true
\* and changes none of history, tabHistory, activeTab and the pending timer
LockedBackIsConsumed ==
  (nev'.op = "hardwareBack" /\ backLockRef)
    => /\ nev'.ret = "true"
       /\ UNCHANGED <<history, tabHistory, activeTab, navigationTimeoutRef,
                      timers, backLockRef>>

\* C15 (as claimed): a hardware back request that arrives while backLock is
\* held returns true and changes none of history, tabHistory, activeTab and
\* the pending timer; of two requests, the second made while the lock of the
\* first is held, exactly one mutation of history follows.
C15_LockedBackExactlyOneMutation ==
  /\ [][LockedBackIsConsumed]_vars
  /\ []((run.phase = "pair" /\ timers = {}) => run.muts = 1)

\* C15 (amended): a hardware back request that arrives while backLock is
\* held returns true and changes none of history, tabHistory, activeTab and
\* the pending timer; of two requests, the second made while the lock of the
\* first is held, at most one mutation of history follows, and exactly one
\* once the timer has fired when the first scheduled a pop on a history of
\* more than one route (the timer of a navigator that was unmounted is
\* cleared and never fires).
C15_LockedBackAtMostOneMutation ==
  /\ [][LockedBackIsConsumed]_vars
  /\ [](run.phase = "pair" =>
          /\ run.muts <= 1
          /\ (run.pop /\ timers = {} /\ navMounted) => run.muts = 1
          /\ (run.pop /\ timers # {}) => run.muts = 0)

C15_Witness ==
  /\ run.phase = "pair" /\ run.pop /\ run.muts = 1
  /\ nev.op = "timer" /\ backLockRef /\ timers = {}
  /\ history = <<HomeRoute, MovieDetails(42)>>

\* C16 (as claimed): when two hardware back requests have been accepted, the
\* first of them finding history to be [Home, MovieDetails 42, PostReview
\* 42], and no timer is pending any more, history is [Home].
C16_TwoAcceptedBacksReachHome ==
  (run.phase = "two" /\ run.fromTop /\ timers = {}) => history = <<HomeRoute>>

\* C17 (as claimed): a hardware back request that arrives with backLock free
\* and the top of history not Home returns true and schedules the pop, and
\* the pop of a timer removes exactly the top route of a history of more
\* than one route.
C17_BackOffHomePops ==
  [][/\ (nev'.op = "hardwareBack" /\ ~backLockRef /\ Top(history).name # "Home")
          => /\ nev'.ret = "true"
             /\ \E t \in timers' : timers' = {t} /\ t.action = BackAction
     /\ (nev'.op = "timer" /\ nev'.action = BackAction /\ Len(history) > 1)
          => history' = SubSeq(history, 1, Len(history) - 1)]_vars

\* C18 (as claimed): a hardware back request that arrives with backLock
\* free, the top of history Home and tabHistory non-empty removes the last
\* entry of tabHistory, makes it activeTab and returns true.
C18_BackOnHomeRestoresTab ==
  [][(nev'.op = "hardwareBack" /\ ~backLockRef /\ Top(history).name = "Home"
        /\ tabHistory # <<>>)
       => /\ nev'.ret = "true"
          /\ tabHistory' = SubSeq(tabHistory, 1, Len(tabHistory) - 1)
          /\ activeTab' = Top(tabHistory)]_vars

\* C19 (as claimed): a hardware back request returns false exactly when
\* backLock is free, the top of history is Home and tabHistory is empty, and
\* then history, tabHistory and activeTab are unchanged; in every other case
\* it returns true.
C19_BackPropagatesOnlyAtRoot ==
  [][nev'.op = "hardwareBack" =>
       /\ nev'.ret = IF ~backLockRef /\ Top(history).name = "Home"
                         /\ tabHistory = <<>>
                       THEN "false" ELSE "true"
       /\ nev'.ret = "false" => UNCHANGED <<history, tabHistory, activeTab>>]_vars

\* C20: every call of goBack, openMovie, openPostReview or handleTabPress,
\* and the goBack of an accepted hardware back request, leaves its own
\* callback as the one pending timer; at most one timer is pending in every
\* reachable state, it is the one navigationTimeoutRef names and carries the
\* callback of the latest call, and the callback a timer runs is that of the
\* latest call.
C20_OnlyLastCallApplies ==
  /\ Cardinality(timers) <= 1
  /\ \A t \in timers : t.id = navigationTimeoutRef /\ t.action = lastCall.action
  /\ (nev.op \in EntryOps \/ nev.branch = "pop")
       => timers = {[id |-> navigationTimeoutRef, action |-> nev.action]}
  /\ nev.op = "timer" => nev.action = lastCall.action

C20_Witness ==
  /\ nev.op = "timer" /\ timers = {}
  /\ lastCall.superseding
  /\ lastCall.action = PushAction(PostReview(42, "Title"))
  /\ nev.action = lastCall.action
  /\ history = <<HomeRoute, MovieDetails(42), PostReview(42, "Title")>>

(***************************************************************************)
(* C29.  While the controller is mounted at most one of initialLoading,    *)
(* refreshing and loadingMore is true, and one of them is true only while  *)
(* a fetch is in flight: loadingRef is set and a fetcher call is awaited.  *)
(***************************************************************************)
C29_OneIndicatorOnlyInFlight ==
  mountedRef =>
    /\ ~(initialLoading /\ refreshing)
    /\ ~(initialLoading /\ loadingMore)
    /\ ~(refreshing /\ loadingMore)
    /\ (initialLoading \/ refreshing \/ loadingMore)
         => (loadingRef /\ inflight # {})

C29_Witness ==
  /\ mountedRef /\ loadingMore /\ ~initialLoading /\ ~refreshing
  /\ loadingRef /\ Cardinality(inflight) = 1
  /\ page = 1 /\ ev.op = "loadNext" /\ ev.issued

(***************************************************************************)
(* C30.  The hook under the assumption that every fetcher call eventually  *)
(* settles: a call that is awaited is eventually resolved or rejected.     *)
(* The loading flags never read the items of a response, so the fetcher    *)
(* of this specification answers with any page and total_pages and an      *)
(* empty list of items.                                                    *)
(***************************************************************************)
LiveAnswers(r) ==
  {resp \in Answers(r) : resp.results = <<>>}

ResolveLive == \E r \in inflight : \E resp \in LiveAnswers(r) : FetchResolve(r, resp)

Settle == (ResolveLive \/ Reject) /\ UNCHANGED obsVars

NextLive ==
  \/ ResetAndLoad /\ UNCHANGED obsVars
  \/ Refresh /\ UNCHANGED obsVars
  \/ LoadNext /\ UNCHANGED obsVars
  \/ ResolveLive /\ UNCHANGED obsVars
  \/ Reject /\ UNCHANGED obsVars
  \/ Unmount /\ UNCHANGED obsVars

SpecLive == Init /\ [][NextLive]_vars /\ WF_vars(Settle)

Idle == ~loadingRef /\ ~initialLoading /\ ~refreshing /\ ~loadingMore

\* C30: when every fetcher call eventually settles, a started fetch
\* (loadingRef set) is followed, unless the view is unmounted, by a state in
\* which loadingRef and the three loading indicators are all clear, so the
\* guard of the next loadNext(), refresh() or resetAndLoad() is open again.
C30_StartedFetchEventuallyIdle == loadingRef ~> (~mountedRef \/ Idle)

C30_Witness ==
  /\ mountedRef /\ Idle /\ inflight = {}
  /\ ev.op = "reject" /\ ev.payload = [isError |-> TRUE, message |-> "Network Error"]
  /\ error = "Network Error"

(***************************************************************************)
(* Properties of the navigator, continued.                                 *)
(***************************************************************************)
\* C22: the unmount of the navigator cancels the pending debounce timer, so
\* an unmounted navigator has no timer pending, and after the unmount no
\* timer callback runs and history, tabHistory and activeTab never change.
C22_TeardownCancelsNavigation ==
  /\ [](~navMounted => timers = {})
  /\ [][~navMounted =>
          (nev'.op # "timer" /\ UNCHANGED <<history, tabHistory, activeTab>>)]_vars

C22_Witness ==
  /\ ~navMounted /\ nev.op = "frame"
  /\ navigationTimeoutRef # 0 /\ timers = {}
  /\ history = <<HomeRoute, MovieDetails(42)>>
  /\ historyRef = history

(***************************************************************************)
(* C21.  The navigator under the assumption that a queued frame callback   *)
(* eventually runs (requestAnimationFrame, lines 116-120).                 *)
(***************************************************************************)
NextNavFair ==
  \/ goBack /\ UNCHANGED navObs
  \/ (\E movieId \in RouteIds : openMovie(movieId)) /\ UNCHANGED navObs
  \/ (\E movieId \in RouteIds : \E movieTitle \in Titles :
        openPostReview(movieId, movieTitle)) /\ UNCHANGED navObs
  \/ (\E tab \in Tabs : handleTabPress(tab)) /\ UNCHANGED navObs
  \/ handleHardwareBack /\ UNCHANGED navObs
  \/ (\E t \in timers : TimerFires(t)) /\ UNCHANGED navObs
  \/ FrameCallback /\ UNCHANGED navObs
  \/ SyncRefs /\ UNCHANGED navObs
  \/ NavUnmount /\ UNCHANGED navObs

SpecNavFair ==
  Init /\ [][NextNavFair]_vars /\ WF_vars(FrameCallback /\ UNCHANGED navObs)

\* a back arbitration that took the lock (any branch but "locked")
Arbitrated == nev.op = "hardwareBack" /\ nev.branch \in {"pop", "tab", "exit"}

\* C21: a back arbitration that sets backLockRef ends with the lock held and
\* a frame callback queued, whichever branch it takes; the lock is released
\* by a frame callback and by no other step; and when queued frame callbacks
\* eventually run, a held lock is eventually released.
C21_LockHeldUntilFrame ==
  /\ [](Arbitrated => (backLockRef /\ frames > 0))
  /\ [][(backLockRef /\ ~backLockRef') => nev'.op = "frame"]_vars
  /\ [](backLockRef => frames > 0)
  /\ backLockRef ~> ~backLockRef

C21_Witness ==
  /\ nev.op = "frame" /\ ~backLockRef /\ frames = 0
  /\ history = <<HomeRoute, MovieDetails(42)>>
  /\ timers = {[id |-> navigationTimeoutRef, action |-> BackAction]}

\* C23: the callback of handleTabPress(tab), when it runs, appends the
\* activeTab of that moment to tabHistory and makes tab the activeTab if the
\* two differ, and changes neither activeTab nor tabHistory if tab is the
\* active tab already; history is untouched either way.
C23_TabSwitchRecordsPrevious ==
  [][(nev'.op = "timer" /\ nev'.action.kind = "tab") =>
       /\ history' = history
       /\ IF activeTab # nev'.action.tab
            THEN /\ tabHistory' = Append(tabHistory, activeTab)
                 /\ activeTab' = nev'.action.tab
            ELSE UNCHANGED <<tabHistory, activeTab>>]_vars

C23_Witness ==
  /\ nev.op = "timer" /\ nev.action = TabAction("search")
  /\ activeTab = "search" /\ tabHistory = <<"popular">>
  /\ timers = {}

(***************************************************************************)
(* The service: one call of a fetcher, with any outcome of each attempt.   *)
(***************************************************************************)
InitRetry ==
  HookInit /\ ObsInit /\ MergeIdle /\ NavInit /\ NavObsInit /\ SvcInit /\ StableInit

Resolves == \E data \in Payloads : AttemptResolves(data)

Rejects == \E err \in Failures(signalAborted) : AttemptRejects(err)

NextRetry ==
  \/ \E name \in Fetchers : CallFetcher(name)
  \/ Resolves
  \/ Rejects
  \/ WaitElapses
  \/ AbortSignal

SpecRetry == InitRetry /\ [][NextRetry]_vars

\* every attempt settles (the client has a timeout, line 13) and every wait
\* elapses
SpecRetryFair ==
  SpecRetry /\ WF_vars(Resolves \/ Rejects) /\ WF_vars(WaitElapses)

(***************************************************************************)
(* Properties of the TMDB service.                                         *)
(***************************************************************************)
\* the step in which an attempt fails: the continuation of lines 93-106
AttemptFailed == svcPc = "requesting" /\ svcPc' \in {"waiting", "done"}
                   /\ svcResult'.kind # "returned"

RetriableAsClaimed(err) ==
  err.isAxiosError /\ (err.status = 0 \/ err.status >= 500)

\* the transport errors lines 55-58 take for a cancellation
TakenForCancellation(err) ==
  err.isAxiosError /\ (err.code = "CANCELLED" \/ err.message = "Request aborted")

\* a failure with a 4xx status, or one that is no transport error
ClientOrOtherError(err) ==
  ~err.isAxiosError \/ (err.status >= 400 /\ err.status < 500)

\* C25 (as claimed): a failed attempt is retried if and only if its failure
\* is retriable and fewer than 2 retries have been made; a 4xx failure or a
\* non-transport error ends the call at once, after exactly one attempt.
C25_RetriedIffRetriable ==
  [][AttemptFailed =>
       /\ (svcPc' = "waiting") <=> (RetriableAsClaimed(lastFailure') /\ attempt < 2)
       /\ ClientOrOtherError(lastFailure') => (svcPc' = "done" /\ requests = 1)]_vars

\* C25 (amended): a failed attempt is retried if and only if its failure is
\* not taken for a cancellation, is retriable, and fewer than 2 retries have
\* been made; a retried attempt is followed by a wait and then by one more
\* attempt; a 4xx failure or a non-transport error ends the call at once,
\* which is after exactly one attempt when no attempt failed before it.
C25_RetriedIffRetriableNotCancelled ==
  /\ [][AttemptFailed =>
          /\ (svcPc' = "waiting") <=>
               (/\ ~TakenForCancellation(lastFailure')
                /\ RetriableAsClaimed(lastFailure')
                /\ attempt < 2)
          /\ ClientOrOtherError(lastFailure') =>
               (svcPc' = "done" /\ (waits = <<>> => requests = 1))]_vars
  /\ [][svcPc = "waiting" =>
          (svcPc' = "requesting" /\ requests' = requests + 1) \/ UNCHANGED svcPc]_vars

C25_Witness ==
  /\ svcPc = "done" /\ requests = 2 /\ waits = <<400>>
  /\ lastFailure = StatusError(404)
  /\ svcResult = ThrownError("TMDB request failed (404).")

\* C26: an attempt that fails after the signal of the call was aborted ends
\* the call at once with the error 'Request cancelled'.
C26_AbortedSignalNotRetried ==
  [][(AttemptFailed /\ signalAborted) =>
       (svcPc' = "done" /\ svcResult' = ThrownError("Request cancelled"))]_vars

\* C27: when the API key is absent a called fetcher, whichever of the four,
\* has thrown the configuration error without any attempt: no call of
\* request(), no HTTP request and no wait.
C27_NoCredentialNoRequest ==
  (~apiKey /\ svcPc # "idle") =>
    /\ svcPc = "done"
    /\ svcResult = ThrownError(ConfigurationError)
    /\ requests = 0 /\ httpRequests = 0 /\ waits = <<>>

C27_Witness ==
  /\ ~apiKey /\ fetcher = "fetchMovieDetailsBundle"
  /\ svcResult = ThrownError(ConfigurationError) /\ httpRequests = 0

\* C28: the n-th wait of a call lasts 400 * n ms, there are at most two, and
\* every wait is followed by an attempt: a call that ended after a failed
\* attempt has one wait less than attempts.
C28_BackoffSchedule ==
  /\ Len(waits) <= 2
  /\ \A n \in 1..Len(waits) : waits[n] = 400 * n
  /\ svcPc = "waiting" => Len(waits) = requests
  /\ (svcPc \in {"requesting", "done"} /\ requests > 0) => Len(waits) = requests - 1

C28_Witness ==
  /\ svcPc = "done" /\ waits = <<400, 800>> /\ requests = 3
  /\ lastFailure = NetworkError
  /\ svcResult.kind = "thrown"

(***************************************************************************)
(* C31.  The hook with a remote source that answers every request for      *)
(* page N with page = N and total_pages >= N; a response the hook returns  *)
(* from without reading it (line 91) may be anything.                      *)
(***************************************************************************)
Truthful(r, resp) == resp.page = r.page /\ resp.total_pages >= r.page

ResolveTruthful ==
  \E r \in inflight : \E resp \in Answers(r) :
    /\ (~mountedRef \/ r.aborted) \/ Truthful(r, resp)
    /\ FetchResolve(r, resp)

NextTruthful ==
  \/ ResetAndLoad /\ UNCHANGED obsVars
  \/ Refresh /\ UNCHANGED obsVars
  \/ LoadNext /\ UNCHANGED obsVars
  \/ ResolveTruthful /\ UNCHANGED obsVars
  \/ Reject /\ UNCHANGED obsVars
  \/ Unmount /\ UNCHANGED obsVars

SpecTruthful == Init /\ [][NextTruthful]_vars

\* C31: with such a source 0 <= page <= totalPages holds in every reachable
\* state, whatever the order of resetAndLoad(), refresh(), loadNext() and
\* the completions of fetches.
C31_PageWithinTotalPages == 0 <= page /\ page <= totalPages

C31_Witness ==
  /\ ev.op = "resolve" /\ ev.mode = "append" /\ ev.page = 2
  /\ page = 2 /\ totalPages = 2 /\ fetchedPagesRef = {1, 2}
  /\ mountedRef

(***************************************************************************)
(* C32.  The navigator with a clock.  Time passes in steps of TickMs; a    *)
(* timer fires no earlier than Delay ms after the setTimeout call that     *)
(* created it, and may fire any time later.  ages and quiet are kept up to *)
(* Delay, which is all the property asks about.                            *)
(***************************************************************************)
\* a step in which scheduleNav ran
Scheduling == nev'.op \in EntryOps \/ (nev'.op = "hardwareBack" /\ nev'.branch = "pop")

ObserveClock ==
  /\ ages' = [i \in {t.id : t \in timers'} |->
                IF Scheduling /\ i = navigationTimeoutRef' THEN 0 ELSE ages[i]]
  /\ quiet' = IF history' # history THEN 0 ELSE quiet
  /\ UNCHANGED <<lastCall, run>>

Tick ==
  /\ \/ quiet < Delay
     \/ \E i \in DOMAIN ages : ages[i] < Delay
  /\ ages' = [i \in DOMAIN ages |-> Min(Delay, ages[i] + TickMs)]
  /\ quiet' = Min(Delay, quiet + TickMs)
  /\ UNCHANGED <<hookVars, obsVars, mergeVars, navVars, svcVars, stableVars,
                 lastCall, run>>

NextNavTimed ==
  \/ goBack /\ ObserveClock
  \/ (\E movieId \in RouteIds : openMovie(movieId)) /\ ObserveClock
  \/ (\E movieId \in RouteIds : \E movieTitle \in Titles :
        openPostReview(movieId, movieTitle)) /\ ObserveClock
  \/ (\E tab \in Tabs : handleTabPress(tab)) /\ ObserveClock
  \/ handleHardwareBack /\ ObserveClock
  \/ (\E t \in timers : ages[t.id] >= Delay /\ TimerFires(t)) /\ ObserveClock
  \/ FrameCallback /\ ObserveClock
  \/ SyncRefs /\ ObserveClock
  \/ NavUnmount /\ ObserveClock
  \/ Tick

SpecNavTimed == Init /\ [][NextNavTimed]_vars

\* C32: history changes only in the step in which a timer fires, never in
\* a call of goBack, openMovie, openPostReview or the hardware back
\* handler, and when it changes at least Delay ms have passed since it last
\* changed.
C32_StackMutatedOnlyByTimer ==
  [][history' # history => (nev'.op = "timer" /\ quiet >= Delay)]_vars

C32_Witness ==
  /\ nev.op = "timer" /\ nev.action = BackAction /\ nev.before = 3
  /\ history = <<HomeRoute, MovieDetails(42)>>
  /\ quiet = 0 /\ timers = {}

(***************************************************************************)
(* C33.  The navigator on its Home route with tab presses, hardware back   *)
(* requests, timers, frame callbacks and the ref synchronisation only, and *)
(* a tabHistory of up to MaxTabDepth entries.                              *)
(***************************************************************************)
TabPress(tab) ==
  /\ Len(tabHistory) < MaxTabDepth
  /\ Debounced("tabPress", TabAction(tab))

NextTabs ==
  \/ (\E tab \in Tabs : TabPress(tab)) /\ UNCHANGED navObs
  \/ handleHardwareBack /\ UNCHANGED navObs
  \/ (\E t \in timers : TimerFires(t)) /\ UNCHANGED navObs
  \/ FrameCallback /\ UNCHANGED navObs
  \/ SyncRefs /\ UNCHANGED navObs

SpecTabs == Init /\ [][NextTabs]_vars

\* tabHistory followed by activeTab
TabTrail == Append(tabHistory, activeTab)

\* C33: in every reachable state no two adjacent entries of tabHistory
\* followed by activeTab are equal.
C33_NoEqualAdjacentTabs ==
  \A i \in 1..(Len(TabTrail) - 1) : TabTrail[i] # TabTrail[i + 1]

(***************************************************************************)
(* The helper hook: calls of debounceNavigation and of cleanup at any      *)
(* moment, timers firing when due.                                         *)
(***************************************************************************)
NextStable ==
  \/ debounceNavigation
  \/ \E t \in stableTimers : StableTimerFires(t)
  \/ StableTick
  \/ cleanup

SpecStable == Init /\ [][NextStable]_vars

(***************************************************************************)
(* Properties of the helper hook.                                          *)
(***************************************************************************)
\* C34: a call of debounceNavigation made while no navigation is in
\* progress runs its callback in the call; a call made while one is in
\* progress does not, and leaves its callback as the only queued one, due
\* after the delay; no callback runs more than once; and of the callbacks
\* queued while navigationInProgressRef stays set, at most one runs.
C34_DebounceRunsLastOnly ==
  /\ [][calls' # calls =>
          IF ~navigationInProgressRef
            THEN ran' = [ran EXCEPT ![calls'] = 1]
            ELSE /\ ran' = ran
                 /\ stableTimers' = {CallbackTimer(stableTimeoutRef', calls')}]_vars
  /\ [](\A cb \in 1..MaxCalls : ran[cb] <= 1)
  /\ [](windowRuns <= 1)

\* C35: once no timer is pending, navigationInProgressRef is false, so the
\* next call of debounceNavigation runs its callback at once.
C35_IdleOnceTimersFired == stableTimers = {} => ~navigationInProgressRef

=============================================================================
